---- MODULE Spec2Model ----
(***************************************************************************)
(* Model of src/bin/index.js (ts-modify-imports): one run of the script on *)
(* one source file.  The run is a straight pipeline:                       *)
(*   collectUsageOfImportSymbols  over every top-level child (collector),  *)
(*   modifyImportsByUsage         statement loop (partitioner),            *)
(*   transformer.visit            over every statement (rewriter),         *)
(*   the printing loop            over the transformed statements,         *)
(*   the replacement loop         over the recorded edits,                 *)
(*   fs.writeFileSync.                                                     *)
(*                                                                         *)
(* Text is modelled as a sequence of tokens; "\n" separates the lines.     *)
(* Import statements of the input are written in the layout the printer    *)
(* produces (one line, "{ A, B }"), with or without the terminator ";".    *)
(* A symbol is identified by its name; every name is bound at most once,   *)
(* and no binding is renamed ("x as y").                                   *)
(***************************************************************************)
EXTENDS Integers, Sequences, FiniteSets

\* ---------------------------------------------------------------- bounds
MaxImports == 2     \* import statements per file
MaxNames == 2       \* named bindings per import statement
MaxRefs == 3        \* references per file in the collector specification

NameList == <<"A", "B", "C">>
Names == {NameList[k] : k \in 1..Len(NameList)}
\* moduleSpecifier.getText(): the literal with its quotes
Modules == {"\"m\"", "\"n\""}

VARIABLES
  file,        \* the top-level statements of the source file, in order
  srcSemi,     \* the statements of the file end with ";"
  semicolon,   \* argv.semicolon
  pc,          \* the pipeline stage
  i,           \* index of the running loop
  Imports,
  ImportsByModuleSpecifier,
  ImportDeclarationsByModuleSpecifier,
  transformed, \* result.transformed[0].statements
  storedLines,
  replacements,
  source,      \* the text being patched
  written      \* contents of argv.file on disk

vars == <<file, srcSemi, semicolon, pc, i, Imports, ImportsByModuleSpecifier,
          ImportDeclarationsByModuleSpecifier, transformed, storedLines,
          replacements, source, written>>

\* ------------------------------------------------------------------ text
RECURSIVE CommaList(_)
CommaList(names) ==
  IF Len(names) = 0 THEN <<>>
  ELSE IF Len(names) = 1 THEN <<names[1]>>
  ELSE <<names[1], ",">> \o CommaList(Tail(names))

\* printer.printNode of an import declaration with named bindings
PrintImport(typeOnly, names, mod) ==
  <<"import">> \o (IF typeOnly THEN <<"type">> ELSE <<>>)
    \o <<"{">> \o CommaList(names) \o <<"}", "from", mod, ";">>

\* String.prototype.replace(';', ''): the first ";" goes
RECURSIVE StripSemicolon(_)
StripSemicolon(text) ==
  IF text = <<>> THEN <<>>
  ELSE IF Head(text) = ";" THEN Tail(text)
  ELSE <<Head(text)>> \o StripSemicolon(Tail(text))

\* Array.prototype.join("\n")
RECURSIVE JoinLines(_)
JoinLines(lines) ==
  IF Len(lines) = 0 THEN <<>>
  ELSE IF Len(lines) = 1 THEN lines[1]
  ELSE lines[1] \o <<"\n">> \o JoinLines(Tail(lines))

\* the text of a statement as it stands in the source file
StatementText(stmt, semi) ==
  LET end == IF semi THEN <<";">> ELSE <<>> IN
  CASE stmt.kind = "named"        -> StripSemicolon(PrintImport(stmt.typeOnly, stmt.names, stmt.mod)) \o end
    [] stmt.kind = "default"      -> <<"import", "D", "from", stmt.mod>> \o end
    [] stmt.kind = "namespace"    -> <<"import", "*", "as", "N", "from", stmt.mod>> \o end
    [] stmt.kind = "defaultNamed" -> <<"import", "D", ",", "{", "E", "}", "from", stmt.mod>> \o end
    [] stmt.kind = "sideEffect"   -> <<"import", stmt.mod>> \o end
    [] stmt.kind = "ref" /\ stmt.pos = "value" -> <<stmt.names[1], "(", ")">> \o end
    [] stmt.kind = "ref" /\ stmt.pos = "type"  -> <<"let", "x", ":", stmt.names[1]>> \o end

RECURSIVE FileLines(_, _)
FileLines(stmts, semi) ==
  IF stmts = <<>> THEN <<>>
  ELSE <<StatementText(Head(stmts), semi)>> \o FileLines(Tail(stmts), semi)

FileText(stmts, semi) == JoinLines(FileLines(stmts, semi))

\* node.getText(sourceFile) of statement k of the file
GetText(k) == StatementText(file[k], srcSemi)

\* first index at which target occurs in text, 0 when it does not
RECURSIVE IndexOfFrom(_, _, _)
IndexOfFrom(text, target, k) ==
  IF k + Len(target) - 1 > Len(text) THEN 0
  ELSE IF SubSeq(text, k, k + Len(target) - 1) = target THEN k
  ELSE IndexOfFrom(text, target, k + 1)

\* String.prototype.replace(target, replacement) with a string pattern:
\* the first occurrence only, the text unchanged when there is none
StringReplace(text, target, replacement) ==
  LET k == IndexOfFrom(text, target, 1) IN
  IF k = 0 THEN text
  ELSE SubSeq(text, 1, k - 1) \o replacement \o SubSeq(text, k + Len(target), Len(text))

\* ---------------------------------------------------------------- inputs
ImportShapes ==
  [kind : {"named"}, typeOnly : BOOLEAN, n : 1..MaxNames, mod : Modules]
    \cup [kind : {"default", "namespace", "defaultNamed", "sideEffect"},
          typeOnly : {FALSE}, n : {0}, mod : {"\"m\""}]

RECURSIVE TotalNames(_)
TotalNames(shapes) ==
  IF shapes = <<>> THEN 0 ELSE Head(shapes).n + TotalNames(Tail(shapes))

ShapeSeqs(max) ==
  {s \in UNION {[1..k -> ImportShapes] : k \in 0..max} :
     TotalNames(s) <= Len(NameList)}

\* the k-th name bound in the file is NameList[k]
RECURSIVE BuildImports(_, _)
BuildImports(shapes, used) ==
  IF shapes = <<>> THEN <<>>
  ELSE LET s == Head(shapes) IN
       <<[kind |-> s.kind, typeOnly |-> s.typeOnly,
          names |-> SubSeq(NameList, used + 1, used + s.n),
          mod |-> s.mod, pos |-> "none"]>>
         \o BuildImports(Tail(shapes), used + s.n)

Ref(name, pos) ==
  [kind |-> "ref", typeOnly |-> FALSE, names |-> <<name>>, mod |-> "", pos |-> pos]

\* one reference at most per bound name, after the imports, in name order
RECURSIVE RefsOf(_, _)
RefsOf(profile, k) ==
  IF k > Len(profile) THEN <<>>
  ELSE (IF profile[k] = "unused" THEN <<>> ELSE <<Ref(NameList[k], profile[k])>>)
         \o RefsOf(profile, k + 1)

Profiles(n) == [1..n -> {"unused", "type", "value"}]

\* the input files of Spec: up to MaxImports import statements, then at most
\* one reference to every bound name
Files ==
  UNION {{BuildImports(s, 0) \o RefsOf(p, 1) : p \in Profiles(TotalNames(s))} :
           s \in ShapeSeqs(MaxImports) \ {<<>>}}

\* ------------------------------------------------- shape of an import node
IsImportDeclaration(stmt) == stmt.kind # "ref"
HasImportClause(stmt) == stmt.kind # "sideEffect"
HasNamedBindings(stmt) == stmt.kind \in {"named", "namespace", "defaultNamed"}
IsNamedImports(stmt) == stmt.kind \in {"named", "defaultNamed"}
HasDefaultName(stmt) == stmt.kind \in {"default", "defaultNamed"}

\* node.importClause is undefined and node.importClause.namedBindings is read
ThrowsTypeError(stmt) == ~HasImportClause(stmt)

\* the early returns without the ts.isNamedImports test
NotHandledNoNamespaceTest(stmt) ==
  \/ HasImportClause(stmt) /\ ~HasNamedBindings(stmt)
  \/ HasDefaultName(stmt)

\* the three early returns "only handle named imports"
NotHandled(stmt) ==
  \/ HasImportClause(stmt) /\ ~HasNamedBindings(stmt)
  \/ ~IsNamedImports(stmt)
  \/ HasDefaultName(stmt)

SeqRange(s) == {s[k] : k \in 1..Len(s)}

\* ------------------------------------------------------------- collector
\* Imports.set(symbol, false | null) for every element of the statement
RegisterImport(imports, stmt) ==
  [n \in Names |->
     IF n \in SeqRange(stmt.names)
     THEN (IF stmt.typeOnly THEN "false" ELSE "null")
     ELSE imports[n]]

\* the identifier branch: type = !ts.isTypeNode(node.parent)
RecordUse(imports, name, pos) ==
  IF imports[name] = "absent" THEN imports
  ELSE IF imports[name] # "true"
       THEN [imports EXCEPT ![name] = IF pos = "value" THEN "true" ELSE "false"]
       ELSE imports

Init ==
  /\ file \in Files
  /\ srcSemi \in BOOLEAN
  /\ semicolon \in BOOLEAN
  /\ pc = "collect"
  /\ i = 1
  /\ Imports = [n \in Names |-> "absent"]
  /\ ImportsByModuleSpecifier = [m \in Modules |-> [present |-> FALSE, runtime |-> <<>>, types |-> <<>>]]
  /\ ImportDeclarationsByModuleSpecifier = {}
  /\ transformed = <<>>
  /\ storedLines = <<>>
  /\ replacements = <<>>
  /\ source = FileText(file, srcSemi)
  /\ written = FileText(file, srcSemi)

\* sourceFile.forEachChild(child => collectUsageOfImportSymbols(child, sourceFile))
CollectUsage ==
  /\ pc = "collect"
  /\ LET stmt == file[i] IN
     IF IsImportDeclaration(stmt) /\ ThrowsTypeError(stmt)
     THEN /\ pc' = "aborted"
          /\ UNCHANGED <<i, Imports>>
     ELSE /\ Imports' =
               IF IsImportDeclaration(stmt)
               THEN (IF NotHandled(stmt) THEN Imports ELSE RegisterImport(Imports, stmt))
               ELSE RecordUse(Imports, stmt.names[1], stmt.pos)
          /\ IF i < Len(file)
             THEN i' = i + 1 /\ pc' = pc
             ELSE i' = 1 /\ pc' = "partition"
  /\ UNCHANGED <<file, srcSemi, semicolon, ImportsByModuleSpecifier,
                 ImportDeclarationsByModuleSpecifier, transformed, storedLines,
                 replacements, source, written>>

\* ----------------------------------------------------------- partitioner
\* the element loop: Imports.get(element.symbol) truthy -> runtime, else types
RECURSIVE SelectNames(_, _, _)
SelectNames(names, imports, wantRuntime) ==
  IF names = <<>> THEN <<>>
  ELSE (IF (imports[Head(names)] = "true") = wantRuntime THEN <<Head(names)>> ELSE <<>>)
         \o SelectNames(Tail(names), imports, wantRuntime)

\* ImportDeclarationsByModuleSpecifier.set(text + "-runtime" | "-types", true)
DeclKey(mod, typeOnly) == <<mod, IF typeOnly THEN "-types" ELSE "-runtime">>

\* the bucket set anew for every statement, nothing accumulated
AddToBucketOverwrite(buckets, stmt, imports) ==
  [buckets EXCEPT ![stmt.mod] =
     [present |-> TRUE,
      runtime |-> SelectNames(stmt.names, imports, TRUE),
      types |-> SelectNames(stmt.names, imports, FALSE)]]

\* the has/else of modifyImportsByUsage: concat onto the module's bucket, or
\* create it
AddToBucket(buckets, stmt, imports) ==
  LET runtime == SelectNames(stmt.names, imports, TRUE)
      types == SelectNames(stmt.names, imports, FALSE)
      old == buckets[stmt.mod]
  IN [buckets EXCEPT ![stmt.mod] =
        IF old.present
        THEN [present |-> TRUE, runtime |-> old.runtime \o runtime, types |-> old.types \o types]
        ELSE [present |-> TRUE, runtime |-> runtime, types |-> types]]

\* sourceFile.statements.forEach(stmt => ...) of modifyImportsByUsage
PartitionStatement ==
  /\ pc = "partition"
  /\ LET stmt == file[i] IN
     IF IsImportDeclaration(stmt) /\ ThrowsTypeError(stmt)
     THEN /\ pc' = "aborted"
          /\ UNCHANGED <<i, ImportsByModuleSpecifier, ImportDeclarationsByModuleSpecifier>>
     ELSE /\ IF IsImportDeclaration(stmt) /\ ~NotHandled(stmt)
             THEN /\ ImportDeclarationsByModuleSpecifier' =
                       ImportDeclarationsByModuleSpecifier \cup {DeclKey(stmt.mod, stmt.typeOnly)}
                  /\ ImportsByModuleSpecifier' = AddToBucket(ImportsByModuleSpecifier, stmt, Imports)
             ELSE UNCHANGED <<ImportsByModuleSpecifier, ImportDeclarationsByModuleSpecifier>>
          /\ IF i < Len(file)
             THEN i' = i + 1 /\ pc' = pc
             ELSE i' = 1 /\ pc' = "transform"
  /\ UNCHANGED <<file, srcSemi, semicolon, Imports, transformed, storedLines,
                 replacements, source, written>>

\* -------------------------------------------------------------- rewriter
\* an import declaration of the transformed tree; original is the index of the
\* statement it updates, 0 for a created declaration
ImportNode(typeOnly, names, mod, original) ==
  [kind |-> "import", typeOnly |-> typeOnly, names |-> names, mod |-> mod,
   original |-> original]

OtherNode == [kind |-> "other", typeOnly |-> FALSE, names |-> <<>>, mod |-> "", original |-> 0]

\* visit(node) for a handled import declaration: the nodes it returns
\* (<<>> for undefined)
VisitImport(k, stmt, buckets, decls) ==
  LET importData == buckets[stmt.mod]
      importDeclsKey == DeclKey(stmt.mod, ~stmt.typeOnly)
      shouldCreateAlternate == importDeclsKey \notin decls
  IN IF ~stmt.typeOnly
     THEN IF Len(importData.runtime) = 0
          THEN IF ~shouldCreateAlternate THEN <<>>
               ELSE <<ImportNode(TRUE, importData.types, stmt.mod, k)>>
          ELSE LET updatedImportDecl == ImportNode(stmt.typeOnly, importData.runtime, stmt.mod, k)
               IN IF importDeclsKey \notin decls /\ Len(importData.types) # 0
                  THEN <<ImportNode(TRUE, importData.types, stmt.mod, 0), updatedImportDecl>>
                  ELSE <<updatedImportDecl>>
     ELSE <<>>

\* visit(node) of every statement of the file, through ts.visitEachChild
Visit ==
  /\ pc = "transform"
  /\ LET stmt == file[i] IN
     IF IsImportDeclaration(stmt) /\ ThrowsTypeError(stmt)
     THEN /\ pc' = "aborted"
          /\ UNCHANGED <<i, transformed>>
     ELSE /\ transformed' = transformed \o
               (IF IsImportDeclaration(stmt)
                THEN (IF NotHandled(stmt) THEN <<>>
                      ELSE VisitImport(i, stmt, ImportsByModuleSpecifier,
                                       ImportDeclarationsByModuleSpecifier))
                ELSE <<OtherNode>>)
          /\ IF i < Len(file)
             THEN i' = i + 1 /\ pc' = pc
             ELSE /\ i' = 1
                  /\ pc' = IF transformed' = <<>> THEN "write" ELSE "print"
  /\ UNCHANGED <<file, srcSemi, semicolon, Imports, ImportsByModuleSpecifier,
                 ImportDeclarationsByModuleSpecifier, storedLines, replacements,
                 source, written>>

\* --------------------------------------------------------- patch applier
\* printer.printNode of a declaration parsed from the file: its own layout,
\* terminated
PrintOriginal(stmt) == StatementText(stmt, TRUE)

\* the body of result.transformed[0].statements.forEach for an import node:
\* the new <<storedLines, replacements>>
PrintStatement(node, stored, repls, semi, originalText, originalPrinted) ==
  LET printed == PrintImport(node.typeOnly, node.names, node.mod) IN
  IF node.original # 0 /\ originalText = printed THEN <<stored, repls>>
  ELSE LET n == IF ~semi THEN StripSemicolon(printed) ELSE printed
           lines == Append(stored, n)
       IN IF node.original # 0 /\ originalText # n
          THEN <<<<>>, Append(repls, [target |-> StripSemicolon(originalPrinted),
                                      replacement |-> JoinLines(lines)])>>
          ELSE <<lines, repls>>

PrintNext ==
  /\ pc = "print"
  /\ LET node == transformed[i]
         o == node.original
         r == IF node.kind = "import"
              THEN PrintStatement(node, storedLines, replacements, semicolon,
                     IF o # 0 THEN GetText(o) ELSE <<>>,
                     IF o # 0 THEN PrintOriginal(file[o]) ELSE <<>>)
              ELSE <<storedLines, replacements>>
     IN /\ storedLines' = r[1]
        /\ replacements' = r[2]
        /\ IF i < Len(transformed)
           THEN i' = i + 1 /\ pc' = pc
           ELSE /\ i' = 1
                /\ pc' = IF replacements' = <<>> THEN "write" ELSE "replace"
  /\ UNCHANGED <<file, srcSemi, semicolon, Imports, ImportsByModuleSpecifier,
                 ImportDeclarationsByModuleSpecifier, transformed, source, written>>

\* replacements.forEach(o => source = source.replace(o.target, o.replacement))
Replace ==
  /\ pc = "replace"
  /\ source' = StringReplace(source, replacements[i].target, replacements[i].replacement)
  /\ IF i < Len(replacements)
     THEN i' = i + 1 /\ pc' = pc
     ELSE i' = 1 /\ pc' = "write"
  /\ UNCHANGED <<file, srcSemi, semicolon, Imports, ImportsByModuleSpecifier,
                 ImportDeclarationsByModuleSpecifier, transformed, storedLines,
                 replacements, written>>

\* fs.writeFileSync(argv.file, source)
Write ==
  /\ pc = "write"
  /\ written' = source
  /\ pc' = "done"
  /\ UNCHANGED <<file, srcSemi, semicolon, i, Imports, ImportsByModuleSpecifier,
                 ImportDeclarationsByModuleSpecifier, transformed, storedLines,
                 replacements, source>>

Next == CollectUsage \/ PartitionStatement \/ Visit \/ PrintNext \/ Replace \/ Write

Spec == Init /\ [][Next]_vars

\* ------------------------------------- the collector under many references
\* one named import anywhere among up to MaxRefs references, each to any name
\* in a type or a value position
RefSeqs == UNION {[1..k -> {Ref(n, p) : n \in Names, p \in {"type", "value"}}] : k \in 0..MaxRefs}

RefFiles ==
  UNION {{SubSeq(r, 1, at) \o BuildImports(<<sh>>, 0) \o SubSeq(r, at + 1, Len(r)) :
            at \in 0..Len(r)} :
         r \in RefSeqs,
         sh \in [kind : {"named"}, typeOnly : BOOLEAN, n : 1..MaxNames, mod : {"\"m\""}]}

InitRefs ==
  /\ file \in RefFiles
  /\ srcSemi \in BOOLEAN
  /\ semicolon \in BOOLEAN
  /\ pc = "collect"
  /\ i = 1
  /\ Imports = [n \in Names |-> "absent"]
  /\ ImportsByModuleSpecifier = [m \in Modules |-> [present |-> FALSE, runtime |-> <<>>, types |-> <<>>]]
  /\ ImportDeclarationsByModuleSpecifier = {}
  /\ transformed = <<>>
  /\ storedLines = <<>>
  /\ replacements = <<>>
  /\ source = FileText(file, srcSemi)
  /\ written = FileText(file, srcSemi)

SpecRefs == InitRefs /\ [][Next]_vars

\* ------------------------------------------------------------ properties
Done == pc = "done"
PartitionDone == pc \in {"transform", "print", "replace", "write", "done"}
InputText == FileText(file, srcSemi)

RECURSIVE SplitLines(_, _)
SplitLines(text, line) ==
  IF text = <<>> THEN <<line>>
  ELSE IF Head(text) = "\n" THEN <<line>> \o SplitLines(Tail(text), <<>>)
  ELSE SplitLines(Tail(text), Append(line, Head(text)))

Lines(text) == SplitLines(text, <<>>)
NoSemi(line) == SelectSeq(line, LAMBDA t : t # ";")

\* a qualifying import statement: named bindings, no default name
Handled(k) == IsImportDeclaration(file[k]) /\ ~ThrowsTypeError(file[k]) /\ ~NotHandled(file[k])
ValueUsed(name) == Imports[name] = "true"
Referenced(name) == \E k \in 1..Len(file) : file[k].kind = "ref" /\ file[k].names[1] = name
\* the statement binds what its kind says: value-used names in a value
\* declaration, the others in a type-only one
Settled(k) ==
  \A n \in SeqRange(file[k].names) : ValueUsed(n) <=> ~file[k].typeOnly

LineFrom(line, m) == line # <<>> /\ line[1] = "import" /\ m \in SeqRange(line)
LineBinds(line, name, m) == LineFrom(line, m) /\ name \in SeqRange(line)
LineTypeOnly(line) == Len(line) >= 2 /\ line[2] = "type"

\* C1: a value statement that is alone for its module and binds value-used and
\* other names is replaced, in the written file, by a type-only declaration of
\* the other names followed by a value declaration of the value-used names, and
\* no other line changes (the other statements need no rewriting here).
C1_MixedUseSplit ==
  Done =>
    \A k \in 1..Len(file) :
      ( /\ Handled(k) /\ ~file[k].typeOnly
        /\ \A j \in 1..Len(file) \ {k} :
              Handled(j) => file[j].mod # file[k].mod /\ Settled(j)
        /\ \E n \in SeqRange(file[k].names) : ValueUsed(n)
        /\ \E n \in SeqRange(file[k].names) : ~ValueUsed(n) )
      => LET out == Lines(written)
             stmt == file[k]
         IN /\ Len(out) = Len(file) + 1
            /\ \A j \in 1..(k - 1) : out[j] = GetText(j)
            /\ NoSemi(out[k]) =
                 NoSemi(PrintImport(TRUE, SelectNames(stmt.names, Imports, FALSE), stmt.mod))
            /\ NoSemi(out[k + 1]) =
                 NoSemi(PrintImport(FALSE, SelectNames(stmt.names, Imports, TRUE), stmt.mod))
            /\ \A j \in (k + 1)..Len(file) : out[j + 1] = GetText(j)

\* C2: when the run has written the file, the text of every default import
\* and of every namespace import of the input is a line of the written file.
C2_UntouchedRoundTrip ==
  Done =>
    \A k \in 1..Len(file) :
      file[k].kind \in {"default", "namespace", "defaultNamed"}
        => GetText(k) \in SeqRange(Lines(written))

\* a run that edited the file around a default or a namespace import
C2_Witness ==
  /\ Done
  /\ replacements # <<>>
  /\ written # InputText
  /\ \E k \in 1..Len(file) : file[k].kind \in {"default", "namespace"}

\* C3: when every value declaration binds value-used names only and every
\* type-only declaration none, the run records no edit and writes the input
\* back unchanged; stated for the sources whose statements are terminated,
\* where the trailing-terminator flag changes nothing.
C3_Idempotence ==
  (Done /\ srcSemi /\ \A k \in 1..Len(file) : Handled(k) => Settled(k))
    => replacements = <<>> /\ written = InputText

\* C4 (as claimed): after the partitioner, the bucket of a qualifying
\* statement's module holds exactly the names that statement binds.
C4_BucketIsStatement ==
  PartitionDone =>
    \A k \in 1..Len(file) :
      Handled(k) =>
        LET b == ImportsByModuleSpecifier[file[k].mod] IN
        /\ SeqRange(b.runtime) \cup SeqRange(b.types) = SeqRange(file[k].names)
        /\ Len(b.runtime) + Len(b.types) = Len(file[k].names)

RECURSIVE ModuleNames(_, _)
ModuleNames(m, k) ==
  IF k > Len(file) THEN <<>>
  ELSE (IF Handled(k) /\ file[k].mod = m THEN file[k].names ELSE <<>>) \o ModuleNames(m, k + 1)

\* C4 (amended): after the partitioner, the bucket of a qualifying statement's
\* module holds exactly the names bound by all qualifying statements of that
\* module, each once, the value-used ones in runtime and the others in types.
C4_BucketIsModule ==
  PartitionDone =>
    \A k \in 1..Len(file) :
      Handled(k) =>
        LET b == ImportsByModuleSpecifier[file[k].mod]
            all == ModuleNames(file[k].mod, 1)
        IN /\ b.present
           /\ b.runtime = SelectNames(all, Imports, TRUE)
           /\ b.types = SelectNames(all, Imports, FALSE)
           /\ SeqRange(b.runtime) \cup SeqRange(b.types) = SeqRange(all)
           /\ Len(b.runtime) + Len(b.types) = Len(all)

\* the partitioner has run on two qualifying statements of one module
C4_Witness ==
  /\ pc = "transform"
  /\ \E k, j \in 1..Len(file) :
       /\ k < j /\ Handled(k) /\ Handled(j) /\ file[k].mod = file[j].mod
       /\ ImportsByModuleSpecifier[file[k].mod].runtime # <<>>
       /\ ImportsByModuleSpecifier[file[k].mod].types # <<>>

\* C5: when the collector has finished, a tracked symbol is classified
\* value-used exactly when some reference to it in the file is in a value
\* position.
C5_FinalClassification ==
  pc \notin {"collect", "aborted"} =>
    \A n \in Names :
      Imports[n] # "absent" =>
        (ValueUsed(n) <=>
           \E k \in 1..Len(file) :
             file[k].kind = "ref" /\ file[k].names[1] = n /\ file[k].pos = "value")

\* C6: a type-only statement of a module that no other import statement names
\* leaves no import from that module in the written file.
C6_TypeOnlyDeleted ==
  Done =>
    \A k \in 1..Len(file) :
      ( /\ Handled(k) /\ file[k].typeOnly
        /\ \A j \in 1..Len(file) :
             (IsImportDeclaration(file[j]) /\ file[j].mod = file[k].mod)
               => Handled(j) /\ file[j].typeOnly )
      => \A l \in SeqRange(Lines(written)) : ~LineFrom(l, file[k].mod)

\* C7: a value statement of a module whose runtime bucket is empty and that
\* has a type-only statement leaves no declaration from that module binding
\* its names in the written file.
C7_DropWithoutMerge ==
  Done =>
    \A k \in 1..Len(file) :
      ( /\ Handled(k) /\ ~file[k].typeOnly
        /\ \A n \in SeqRange(file[k].names) : Imports[n] = "false"
        /\ ImportsByModuleSpecifier[file[k].mod].runtime = <<>>
        /\ \E j \in 1..Len(file) :
             Handled(j) /\ file[j].typeOnly /\ file[j].mod = file[k].mod )
      => \A n \in SeqRange(file[k].names) :
           \A l \in SeqRange(Lines(written)) : ~LineBinds(l, n, file[k].mod)

\* C8: no import statement that is a default import, a namespace import or
\* has no named bindings (none at all included) makes the run abort.
C8_UnsupportedShapeNoAbort ==
  (\E k \in 1..Len(file) :
      file[k].kind \in {"default", "namespace", "defaultNamed", "sideEffect"})
    => pc # "aborted"

\* C9: every referenced name bound by a qualifying statement is still bound by
\* a declaration from its module in the written file, and by a value
\* declaration when it is value-used and was bound by a value statement;
\* stated for the files that use no type-only binding as a value.
C9_ImportPreserved ==
  (Done /\ \A j \in 1..Len(file) :
             (Handled(j) /\ file[j].typeOnly)
               => \A n \in SeqRange(file[j].names) : ~ValueUsed(n)) =>
    \A k \in 1..Len(file) :
      Handled(k) =>
        \A n \in SeqRange(file[k].names) :
          Referenced(n) =>
            /\ \E l \in SeqRange(Lines(written)) : LineBinds(l, n, file[k].mod)
            /\ (ValueUsed(n) /\ ~file[k].typeOnly)
                 => \E l \in SeqRange(Lines(written)) :
                      LineBinds(l, n, file[k].mod) /\ ~LineTypeOnly(l)

\* C10: in the written file no name is bound by two import declarations of a
\* module, the pending buffer is empty, and every created type-only
\* declaration stands once, right before the value declaration it was
\* created for.
C10_MinimalOutput ==
  Done =>
    LET out == Lines(written) IN
    /\ \A n \in Names, m \in Modules :
         Cardinality({j \in 1..Len(out) : LineBinds(out[j], n, m)}) <= 1
    /\ storedLines = <<>>
    /\ \A t \in 1..Len(transformed) :
         (transformed[t].kind = "import" /\ transformed[t].original = 0)
           => LET created == NoSemi(PrintImport(TRUE, transformed[t].names, transformed[t].mod))
                  value == NoSemi(PrintImport(FALSE, transformed[t + 1].names, transformed[t + 1].mod))
                  at == {j \in 1..Len(out) : NoSemi(out[j]) = created}
              IN /\ Cardinality(at) = 1
                 /\ \A j \in at : j < Len(out) /\ NoSemi(out[j + 1]) = value

====
